---- MODULE Spec2Model ----
(***************************************************************************)
(* Verification model of the WhoIsWho server-side handlers:                *)
(*   - POST /api/generate-snapshot (authentication, authorization, the     *)
(*     mintAttempts rate-limit ledger, data gathering, rendering, pinning) *)
(*   - the OG image handler with imageCache and pendingGenerations         *)
(*   - GET /api/user, /api/search, /api/clanker-tokens, /api/streme-tokens *)
(* and of the WhoIsWho ERC-721 contract (mint, setMintPrice, withdraw).    *)
(* Each subsystem has its own specification over the shared variables.     *)
(***************************************************************************)
EXTENDS Integers, Sequences, FiniteSets, TLC

VARIABLES
  now,            \* Date.now(), in milliseconds
  env,            \* process.env: which secrets are configured
  mintAttempts,   \* generate-snapshot: Map<fid, timestamps[]>
  snap,           \* generate-snapshot: the POST invocations in progress
  admitted,       \* per fid, the times at which a request passed the rate check
  imageCache,     \* OG image: Map<fid, CacheEntry>, in insertion order
  pendingGenerations, \* OG image: Map<fid, Promise>, a promise named by the request that made it
  img,            \* OG image: the Image invocations in progress
  api,            \* the GET route handler invocation in progress
  wiw,            \* WhoIsWho.sol: the storage and the balance of the deployed contract
  tx,             \* WhoIsWho.sol: the last transaction sent to the contract and its outcome
  mints,          \* WhoIsWho.sol: the number of mint transactions that succeeded so far
  ui              \* FarcasterUserSearch: the component state, its timer and its fetches

snapVars == <<mintAttempts, snap, admitted>>
imgVars == <<imageCache, pendingGenerations, img>>
chainVars == <<wiw, tx, mints>>
vars == <<now, env, mintAttempts, snap, admitted, imageCache, pendingGenerations, img, api,
          wiw, tx, mints, ui>>

None == "none"

\* the elements of a sequence
Range(seq) == {seq[i] : i \in DOMAIN seq}

\* ------------------------------------------------------------------------
\* Bounds of the model
\* ------------------------------------------------------------------------
Fids == {1, 2}
\* checkRateLimit runs without suspending and the later steps of a POST touch
\* no shared state, so the POST invocations are taken one after the other
SnapReqs == {"p1"}
\* two concurrent Image invocations: one that generates and one that meets it
ImgReqs == {"i1", "i2"}
MaxTicks == 2
\* what the user types into the search box; two of the texts trim to "a"
Queries == {<<>>, <<" ">>, <<"a">>, <<"a", " ">>, <<"b">>}
\* search requests of the component awaiting their response at one time
MaxInFlight == 2

\* ------------------------------------------------------------------------
\* JavaScript string and number primitives used by the GET handlers.
\* A string is a sequence of one-character strings; a query parameter is
\* [present, text], absent when searchParams.get returns null.
\* ------------------------------------------------------------------------
Digits == {"0", "1", "2", "3", "4", "5", "6", "7", "8", "9"}
DigitVal(c) ==
  CASE c = "0" -> 0 [] c = "1" -> 1 [] c = "2" -> 2 [] c = "3" -> 3 [] c = "4" -> 4
    [] c = "5" -> 5 [] c = "6" -> 6 [] c = "7" -> 7 [] c = "8" -> 8 [] c = "9" -> 9

Absent == [present |-> FALSE, text |-> <<>>]
Given(text) == [present |-> TRUE, text |-> text]

\* !value for a string-or-null: null and "" are falsy
Falsy(param) == ~param.present \/ param.text = <<>>

RECURSIVE TrimStart(_)
TrimStart(s) == IF s # <<>> /\ s[1] = " " THEN TrimStart(Tail(s)) ELSE s
RECURSIVE TrimEnd(_)
TrimEnd(s) == IF s # <<>> /\ s[Len(s)] = " " THEN TrimEnd(SubSeq(s, 1, Len(s) - 1)) ELSE s
\* String.prototype.trim
Trim(s) == TrimEnd(TrimStart(s))

AllDigits(s) == \A i \in DOMAIN s : s[i] \in Digits

RECURSIVE DigitsValue(_)
DigitsValue(s) == IF s = <<>> THEN 0
                  ELSE 10 * DigitsValue(SubSeq(s, 1, Len(s) - 1)) + DigitVal(s[Len(s)])

RECURSIVE DigitPrefix(_)
DigitPrefix(s) == IF s # <<>> /\ s[1] \in Digits THEN <<s[1]>> \o DigitPrefix(Tail(s)) ELSE <<>>

\* an unsigned decimal literal: digits, digits "." digits, "." digits, digits "."
DecimalLiteral(u) ==
  \E k \in 0..Len(u) :
    LET whole == SubSeq(u, 1, k)
        rest == SubSeq(u, k + 1, Len(u))
    IN  /\ AllDigits(whole)
        /\ \/ rest = <<>> /\ whole # <<>>
           \/ /\ rest # <<>> /\ rest[1] = "."
              /\ AllDigits(Tail(rest))
              /\ Len(whole) + Len(Tail(rest)) > 0

\* isNaN(Number(text)): Number trims, reads "" as 0, and accepts a signed decimal literal
NumberIsNaN(text) ==
  LET t == Trim(text)
      u == IF t # <<>> /\ t[1] \in {"+", "-"} THEN Tail(t) ELSE t
  IN  t # <<>> /\ ~DecimalLiteral(u)

\* parseInt(text): leading blanks, an optional sign, then the longest run of digits
ParseInt(text) ==
  LET t == TrimStart(text)
      negative == t # <<>> /\ t[1] = "-"
      u == IF t # <<>> /\ t[1] \in {"+", "-"} THEN Tail(t) ELSE t
      run == DigitPrefix(u)
  IN  IF run = <<>> THEN [nan |-> TRUE, val |-> 0]
      ELSE [nan |-> FALSE, val |-> IF negative THEN 0 - DigitsValue(run) ELSE DigitsValue(run)]

\* ------------------------------------------------------------------------
\* GET route handlers.  A handler keeps no state between invocations, so one
\* invocation at a time is modelled: api.pc is "idle", "await" (suspended in
\* Promise.all / fetch) or "done" (response returned).
\* ------------------------------------------------------------------------
\* an upstream HTTP exchange: kind "reject" (fetch throws), "status" (response
\* with ok = false), "badjson" (ok, body does not parse), "ok" (ok, body parsed)
NoResp == [kind |-> "none", status |-> 0, fids |-> <<>>, tokens |-> <<>>,
           total |-> 0 - 1, flag |-> FALSE]
Reject == [NoResp EXCEPT !.kind = "reject"]
BadJson == [NoResp EXCEPT !.kind = "badjson", !.status = 200]
Failed(code) == [NoResp EXCEPT !.kind = "status", !.status = code]
ErrorStatuses == {404, 500}

\* fids of the accounts the upstream providers know, and short lists of them
UserFids == {1, 2, 12}
MaxUsers == 2
FidLists == UNION {[1..n -> UserFids] : n \in 0..MaxUsers}

\* order: the upstream calls of /api/search in the order they completed
IdleApi == [pc |-> "idle", route |-> None, fid |-> Absent, q |-> Absent, limitNum |-> 0,
            calls |-> {}, up |-> <<NoResp, NoResp>>, order |-> <<>>, status |-> 0,
            user |-> [fid |-> 0, farcaster |-> FALSE], users |-> <<>>,
            tokens |-> <<>>, total |-> 0]

Call(to, text, max) == [to |-> to, text |-> text, max |-> max]

\* values of the fid query parameter
FidParams == {Absent} \cup {Given(t) : t \in
  {<<>>, <<" ">>, <<"a">>, <<"0">>, <<"1">>, <<"2">>, <<"1", "2">>, <<"0", "1">>,
   <<"-", "1">>, <<"1", ".", "5">>, <<"1", "a">>, <<" ", "2">>}}

\* ---- GET /api/user ------------------------------------------------------
\* responses of the Neynar bulk-user endpoint and of the Farcaster client API
NeynarResponses ==
  {Reject, BadJson} \cup {Failed(c) : c \in ErrorStatuses}
    \cup {[NoResp EXCEPT !.kind = "ok", !.status = 200, !.fids = l] : l \in FidLists}
FarcasterResponses ==
  {Reject, BadJson} \cup {Failed(c) : c \in ErrorStatuses}
    \cup {[NoResp EXCEPT !.kind = "ok", !.status = 200, !.flag = b] : b \in BOOLEAN}

\* lines 23-75: validate fid, read the API key, issue both fetches
UserRequest(fid, viewer) ==
  /\ api.pc = "idle"
  /\ LET req == [IdleApi EXCEPT !.route = "user", !.fid = fid]
     IN  api' =
           IF Falsy(fid) THEN [req EXCEPT !.pc = "done", !.status = 400]
           ELSE IF NumberIsNaN(fid.text) THEN [req EXCEPT !.pc = "done", !.status = 400]
           ELSE IF ~env.NEYNAR_API_KEY THEN [req EXCEPT !.pc = "done", !.status = 500]
           ELSE [req EXCEPT !.pc = "await",
                            !.calls = {Call("neynar", fid.text, IF viewer THEN 1 ELSE 0),
                                       Call("farcaster", fid.text, 0)}]
  /\ UNCHANGED <<now, env, ui, chainVars, snapVars, imgVars>>

\* lines 85-96: the optional Farcaster client payload, or null
FarcasterData(farcasterResponse) ==
  farcasterResponse.kind = "ok" /\ farcasterResponse.flag

\* lines 75-123: Promise.all settles; merge and respond
UserSettle(neynarResponse, farcasterResponse) ==
  /\ api.pc = "await" /\ api.route = "user"
  /\ LET got == [api EXCEPT !.up = <<neynarResponse, farcasterResponse>>]
     IN  api' =
           IF neynarResponse.kind = "reject" \/ farcasterResponse.kind = "reject"
             THEN [got EXCEPT !.pc = "done", !.status = 500]
           ELSE IF neynarResponse.kind = "status"
             THEN [got EXCEPT !.pc = "done", !.status = neynarResponse.status]
           ELSE IF neynarResponse.kind = "badjson"
             THEN [got EXCEPT !.pc = "done", !.status = 500]
           ELSE IF Len(neynarResponse.fids) > 0
             THEN [got EXCEPT !.pc = "done", !.status = 200,
                              !.user = [fid |-> neynarResponse.fids[1],
                                        farcaster |-> FarcasterData(farcasterResponse)]]
           ELSE [got EXCEPT !.pc = "done", !.status = 404]
  /\ UNCHANGED <<now, env, ui, chainVars, snapVars, imgVars>>

\* ---- GET /api/search ----------------------------------------------------
QueryParams == {Absent} \cup {Given(t) : t \in
  {<<>>, <<" ">>, <<"a">>, <<"1">>, <<"2">>, <<"1", "2">>, <<" ", "1", "2", " ">>,
   <<"0", "1">>, <<"1", "a">>}}
LimitParams == {Absent} \cup {Given(t) : t \in
  {<<>>, <<"a">>, <<"0">>, <<"1">>, <<"5", "0">>, <<"9", "9">>, <<"-", "1">>}}

SearchResponses ==
  {Reject, BadJson} \cup {Failed(c) : c \in ErrorStatuses}
    \cup {[NoResp EXCEPT !.kind = "ok", !.status = 200, !.fids = l] : l \in FidLists}
LookupResponses ==
  {Reject, BadJson} \cup {Failed(c) : c \in ErrorStatuses}
    \cup {[NoResp EXCEPT !.kind = "ok", !.status = 200, !.fids = l] :
             l \in {<<>>} \cup {<<f>> : f \in UserFids}}

\* line 32: Math.min(parseInt(limit) || 10, 50), limit defaulting to "10"
LimitNum(limit) ==
  LET text == IF Falsy(limit) THEN <<"1", "0">> ELSE limit.text
      parsed == ParseInt(text)
      wanted == IF parsed.nan \/ parsed.val = 0 THEN 10 ELSE parsed.val
  IN  IF wanted < 50 THEN wanted ELSE 50

\* line 36: /^\d+$/.test(queryTrimmed)
IsNumeric(queryTrimmed) == queryTrimmed # <<>> /\ AllDigits(queryTrimmed)

SearchUser(fid) == [fid |-> fid, from |-> "search"]

\* variant: the direct hit is added after the text results, which are kept as they are
MergeLookup_Append(users, userByFid) ==
  Append(users, [fid |-> userByFid, from |-> "lookup"])

\* lines 96-111: drop the text results with the fid of the direct hit, then unshift it
MergeLookup(users, userByFid) ==
  <<[fid |-> userByFid, from |-> "lookup"]>>
    \o SelectSeq(users, LAMBDA u : u.fid # userByFid)

\* lines 21-75: validate q, cap the limit, issue the text search and, for a
\* numeric query, the lookup by fid
SearchRequest(q, limit) ==
  /\ api.pc = "idle"
  /\ LET req == [IdleApi EXCEPT !.route = "search", !.q = q]
         queryTrimmed == Trim(q.text)
         limitNum == LimitNum(limit)
     IN  api' =
           IF Falsy(q) \/ queryTrimmed = <<>> THEN [req EXCEPT !.pc = "done", !.status = 400]
           ELSE [req EXCEPT !.pc = "await", !.limitNum = limitNum,
                   !.calls = {Call("search-summary", queryTrimmed, limitNum)} \cup
                             IF IsNumeric(queryTrimmed)
                               THEN {Call("user-by-fid", <<>>, ParseInt(queryTrimmed).val)}
                               ELSE {}]
  /\ UNCHANGED <<now, env, ui, chainVars, snapVars, imgVars>>

\* lines 48-75: one of the fetches handed to Promise.all completes (1: the
\* text search, 2: the lookup by fid); a rejected fetch rejects the join at
\* once and the catch of lines 128-131 answers
SearchArrive(i, response) ==
  /\ api.pc = "await" /\ api.route = "search"
  /\ api.up[i] = NoResp
  /\ i = 2 => IsNumeric(Trim(api.q.text))
  /\ LET got == [api EXCEPT !.up[i] = response, !.order = Append(@, i)]
     IN  api' = IF response.kind = "reject"
                  THEN [got EXCEPT !.pc = "done", !.status = 500]
                  ELSE got
  /\ UNCHANGED <<now, env, ui, chainVars, snapVars, imgVars>>

\* variant: the results are put together in the order the calls completed
SearchUsers_ByArrival(users, fidResponse, order) ==
  IF fidResponse.kind = "ok" /\ Len(fidResponse.fids) > 0
    THEN IF order[1] = 2
           THEN MergeLookup(users, fidResponse.fids[1])
           ELSE Append(SelectSeq(users, LAMBDA u : u.fid # fidResponse.fids[1]),
                       [fid |-> fidResponse.fids[1], from |-> "lookup"])
    ELSE users

\* lines 88-116: the text results, with the direct hit, if any, in front
SearchUsers(users, fidResponse, order) ==
  IF fidResponse.kind = "ok" /\ Len(fidResponse.fids) > 0
    THEN MergeLookup(users, fidResponse.fids[1])
    ELSE users

\* lines 75-131: Promise.all has resolved with every response; fidResponse is
\* NoResp when no lookup was issued
SearchSettle(searchResponse, fidResponse) ==
  /\ api.pc = "await" /\ api.route = "search"
  /\ searchResponse = api.up[1] /\ fidResponse = api.up[2]
  /\ searchResponse # NoResp
  /\ IsNumeric(Trim(api.q.text)) <=> fidResponse # NoResp
  /\ LET users == IF searchResponse.kind = "ok"
                    THEN [i \in DOMAIN searchResponse.fids |-> SearchUser(searchResponse.fids[i])]
                    ELSE <<>>
     IN  api' =
           IF searchResponse.kind = "badjson"
             THEN [api EXCEPT !.pc = "done", !.status = 500]
           ELSE IF fidResponse.kind = "badjson"
             THEN [api EXCEPT !.pc = "done", !.status = 500]
           ELSE [api EXCEPT !.pc = "done", !.status = 200,
                            !.users = SearchUsers(users, fidResponse, api.order)]
  /\ UNCHANGED <<now, env, ui, chainVars, snapVars, imgVars>>

\* ---- GET /api/clanker-tokens and GET /api/streme-tokens -----------------
\* tokens as a registry reports them
TokenPool == {[contract_address |-> "0xA", marketCap |-> 5],
              [contract_address |-> "0xB", marketCap |-> 9]}
MaxTokens == 2
TokenLists == UNION {[1..n -> TokenPool] : n \in 0..MaxTokens}

\* the verified wallet addresses of the known accounts (user.verified_addresses)
VerifiedAddresses == [f \in UserFids |-> IF f = 2 THEN {} ELSE {"0xW1", "0xW2"}]

\* Clanker body {data?, total?}: flag tells whether data is present, total -1 that total is absent
ClankerResponses ==
  {Reject, BadJson} \cup {Failed(c) : c \in ErrorStatuses}
    \cup {[NoResp EXCEPT !.kind = "ok", !.status = 200, !.flag = TRUE, !.tokens = l, !.total = n] :
             l \in TokenLists, n \in {0 - 1, 0, 1, 2}}
    \cup {[NoResp EXCEPT !.kind = "ok", !.status = 200, !.flag = FALSE, !.total = n] :
             n \in {0 - 1, 0}}
\* Streme body: an array of tokens (flag) or some other JSON value
StremeResponses ==
  {Reject, BadJson} \cup {Failed(c) : c \in ErrorStatuses}
    \cup {[NoResp EXCEPT !.kind = "ok", !.status = 200, !.flag = TRUE, !.tokens = l] :
             l \in TokenLists}
    \cup {[NoResp EXCEPT !.kind = "ok", !.status = 200, !.flag = FALSE]}

\* clanker-tokens lines 18-51, streme-tokens lines 146-172: validate fid, query the registry by fid
TokensRequest(route, fid) ==
  /\ api.pc = "idle"
  /\ LET req == [IdleApi EXCEPT !.route = route, !.fid = fid]
         fidNum == ParseInt(fid.text)
     IN  api' =
           IF Falsy(fid) THEN [req EXCEPT !.pc = "done", !.status = 400]
           ELSE IF fidNum.nan \/ fidNum.val < 1 THEN [req EXCEPT !.pc = "done", !.status = 400]
           ELSE [req EXCEPT !.pc = "await", !.calls = {Call(route, fid.text, 0)}]
  /\ UNCHANGED <<now, env, ui, chainVars, snapVars, imgVars>>

\* clanker-tokens lines 53-77: pass the registry's data and total through
ClankerSettle(response) ==
  /\ api.pc = "await" /\ api.route = "clanker"
  /\ LET got == [api EXCEPT !.up = <<response, NoResp>>]
     IN  api' =
           IF response.kind \in {"reject", "badjson"}
             THEN [got EXCEPT !.pc = "done", !.status = 500]
           ELSE IF response.kind = "status"
             THEN [got EXCEPT !.pc = "done", !.status = response.status]
           ELSE [got EXCEPT !.pc = "done", !.status = 200,
                            !.tokens = IF response.flag THEN response.tokens ELSE <<>>,
                            !.total = IF response.total < 0 THEN 0 ELSE response.total]
  /\ UNCHANGED <<now, env, ui, chainVars, snapVars, imgVars>>

\* streme-tokens lines 174-201: the array the registry returned, and its length
StremeSettle(response) ==
  /\ api.pc = "await" /\ api.route = "streme"
  /\ LET got == [api EXCEPT !.up = <<response, NoResp>>]
         tokensArray == IF response.flag THEN response.tokens ELSE <<>>
     IN  api' =
           IF response.kind \in {"reject", "badjson"}
             THEN [got EXCEPT !.pc = "done", !.status = 500]
           ELSE IF response.kind = "status"
             THEN [got EXCEPT !.pc = "done", !.status = response.status]
           ELSE [got EXCEPT !.pc = "done", !.status = 200,
                            !.tokens = tokensArray, !.total = Len(tokensArray)]
  /\ UNCHANGED <<now, env, ui, chainVars, snapVars, imgVars>>

\* the response has been delivered
ApiClose ==
  /\ api.pc = "done"
  /\ api' = IdleApi
  /\ UNCHANGED <<now, env, ui, chainVars, snapVars, imgVars>>

\* ------------------------------------------------------------------------
\* components/FarcasterUserSearch.tsx
\* ui.timer is the text captured by the pending setTimeout callback, or None;
\* ui.fetches are the texts of the requests awaiting their response;
\* ui.selected is the fid last handed to onSelectUser, 0 before the first.
\* results.of is not part of the component state: it names the request whose
\* response setResults stored, for the properties to refer to.
\* A handler, the re-render it causes, the cleanup of the previous effect and
\* the effect of the new query are taken as one step.
\* ------------------------------------------------------------------------
\* setResults([])
NoResults == [of |-> None, users |-> <<>>]

\* lines 21-25: useState initial values
IdleUi == [query |-> <<>>, results |-> NoResults, isLoading |-> FALSE, isOpen |-> FALSE,
           error |-> FALSE, timer |-> None, fetches |-> <<>>, selected |-> 0]

\* lines 41-74: the cleanup of the previous effect (clearTimeout), then the
\* effect body for the new query, applied to the state u the handler left
SearchEffect(u) ==
  IF Trim(u.query) = <<>>
    THEN [u EXCEPT !.results = NoResults, !.isOpen = FALSE, !.timer = None]
    ELSE [u EXCEPT !.isLoading = TRUE, !.error = FALSE, !.timer = u.query]

\* line 101: onChange; a setQuery with the same text causes no render
UiType(text) ==
  /\ text # ui.query
  /\ ui' = SearchEffect([ui EXCEPT !.query = text])
  /\ UNCHANGED <<now, env, chainVars, snapVars, imgVars, api>>

\* lines 83-88, the button of lines 106-114
UiClear ==
  /\ ui.query # <<>>
  /\ ui' = SearchEffect([ui EXCEPT !.query = <<>>, !.results = NoResults,
                                   !.isOpen = FALSE, !.error = FALSE])
  /\ UNCHANGED <<now, env, chainVars, snapVars, imgVars, api>>

\* lines 76-81, a row of the list of lines 130-152; the effect runs again
\* only if the query changed
UiSelectUser ==
  /\ ui.isOpen /\ ~ui.error /\ ui.results.users # <<>>
  /\ LET u == [ui EXCEPT !.selected = ui.results.users[1],
                          !.query = <<>>, !.isOpen = FALSE, !.results = NoResults]
     IN  ui' = IF ui.query # <<>> THEN SearchEffect(u) ELSE u
  /\ UNCHANGED <<now, env, chainVars, snapVars, imgVars, api>>

\* lines 29-38
UiClickOutside ==
  /\ ui.isOpen
  /\ ui' = [ui EXCEPT !.isOpen = FALSE]
  /\ UNCHANGED <<now, env, chainVars, snapVars, imgVars, api>>

\* lines 53-55: the 300 ms have passed; the callback sends the request
UiTimeout ==
  /\ ui.timer # None
  /\ Len(ui.fetches) < MaxInFlight
  /\ ui' = [ui EXCEPT !.timer = None, !.fetches = Append(@, Trim(ui.timer))]
  /\ UNCHANGED <<now, env, chainVars, snapVars, imgVars, api>>

\* what the request ends with: a list of users, an empty or missing list,
\* or a failure (fetch rejects, status not ok, body not JSON)
SearchOutcomes == {"users", "empty", "fails"}

RemoveAt(seq, i) == SubSeq(seq, 1, i - 1) \o SubSeq(seq, i + 1, Len(seq))

\* lines 55-70: the request i settles
UiResponse(i, outcome) ==
  /\ i \in DOMAIN ui.fetches
  /\ LET rest == RemoveAt(ui.fetches, i)
     IN  ui' = IF outcome = "fails"
                 THEN [ui EXCEPT !.error = TRUE, !.results = NoResults,
                                 !.isLoading = FALSE, !.fetches = rest]
                 ELSE [ui EXCEPT !.results = [of |-> ui.fetches[i],
                                              users |-> IF outcome = "users" THEN <<1>> ELSE <<>>],
                                 !.isOpen = TRUE,
                                 !.isLoading = FALSE, !.fetches = rest]
  /\ UNCHANGED <<now, env, chainVars, snapVars, imgVars, api>>

\* ------------------------------------------------------------------------
\* POST /api/generate-snapshot
\* ------------------------------------------------------------------------
RATE_LIMIT_WINDOW == 60 * 60 * 1000
MAX_MINTS_PER_HOUR == 5

HalfWindow == RATE_LIMIT_WINDOW \div 2
SnapTickSteps == {HalfWindow - 1, HalfWindow}
SnapMaxNow == MaxTicks * HalfWindow

\* one hour in milliseconds, as the rate-limit claims count it
OneHourMs == 60 * 60 * 1000
WithinHour(attempts, t) == SelectSeq(attempts, LAMBDA timestamp : t - timestamp < OneHourMs)

\* variant: an attempt exactly one window old still counts
RecentAttempts_Inclusive(attempts, t) ==
  SelectSeq(attempts, LAMBDA timestamp : t - timestamp <= RATE_LIMIT_WINDOW)

\* line 87: the attempts of `attempts` that lie inside the window ending at time t
RecentAttempts(attempts, t) ==
  SelectSeq(attempts, LAMBDA timestamp : t - timestamp < RATE_LIMIT_WINDOW)

\* variant: the attempt is recorded before the cap is tested
checkRateLimit_RecordsRejected(fid) ==
  LET recentAttempts == RecentAttempts(mintAttempts[fid], now)
      recorded == [mintAttempts EXCEPT ![fid] = Append(recentAttempts, now)]
  IN  [ok |-> Len(recentAttempts) < MAX_MINTS_PER_HOUR, ledger |-> recorded]

\* checkRateLimit(fid): the verdict and the ledger it leaves behind
checkRateLimit(fid) ==
  LET recentAttempts == RecentAttempts(mintAttempts[fid], now)
  IN  IF Len(recentAttempts) >= MAX_MINTS_PER_HOUR
      THEN [ok |-> FALSE, ledger |-> mintAttempts]
      ELSE [ok |-> TRUE,
            ledger |-> [mintAttempts EXCEPT ![fid] = Append(recentAttempts, now)]]

\* request bodies: fid 0 stands for a missing/falsy fid
TokenKinds == {"missing", "invalid", "valid"}
Tokens == {[kind |-> "missing", sub |-> 0], [kind |-> "invalid", sub |-> 0]}
            \cup {[kind |-> "valid", sub |-> f] : f \in Fids}
Bodies == [parses : {TRUE}, fid : Fids \cup {0}, token : Tokens]
            \cup {[parses |-> FALSE, fid |-> 0, token |-> [kind |-> "missing", sub |-> 0]]}

IdleSnap == [pc |-> "idle", fid |-> 0, token |-> [kind |-> "missing", sub |-> 0],
             status |-> 0, trace |-> <<>>, imageHash |-> FALSE, metadataHash |-> FALSE]

Respond(r, code, steps) ==
  [snap[r] EXCEPT !.pc = "done", !.status = code, !.trace = snap[r].trace \o steps,
                  !.token = IdleSnap.token]

\* lines 153-170: parse the body, check presence of fid and token, call verifyJwt
SnapReceive(r, body) ==
  /\ snap[r].pc = "idle"
  /\ snap' = [snap EXCEPT ![r] =
        IF ~body.parses
          THEN [IdleSnap EXCEPT !.pc = "done", !.status = 500]
        ELSE IF body.fid = 0 \/ body.token.kind = "missing"
          THEN [IdleSnap EXCEPT !.pc = "done", !.status = 400, !.fid = body.fid]
        ELSE [IdleSnap EXCEPT !.pc = "verify", !.fid = body.fid, !.token = body.token]]
  /\ UNCHANGED <<now, env, ui, chainVars, mintAttempts, admitted, imgVars, api>>

\* variant: the rate check runs as soon as the token verifies, before the fid comparison
SnapVerify_RateFirst(r, verifierUp) ==
  /\ snap[r].pc = "verify"
  /\ LET fid == snap[r].fid
         token == snap[r].token
     IN  IF ~verifierUp
           THEN /\ snap' = [snap EXCEPT ![r] = Respond(r, 500, <<"auth">>)]
                /\ UNCHANGED <<mintAttempts, admitted>>
         ELSE IF token.kind = "invalid"
           THEN /\ snap' = [snap EXCEPT ![r] = Respond(r, 401, <<"auth">>)]
                /\ UNCHANGED <<mintAttempts, admitted>>
         ELSE LET rl == checkRateLimit(fid)
              IN  /\ mintAttempts' = rl.ledger
                  /\ IF ~rl.ok
                       THEN /\ snap' = [snap EXCEPT ![r] = Respond(r, 429, <<"auth", "rate">>)]
                            /\ UNCHANGED admitted
                     ELSE IF token.sub # fid
                       THEN /\ snap' = [snap EXCEPT ![r] = Respond(r, 403, <<"auth", "rate", "authz">>)]
                            /\ UNCHANGED admitted
                     ELSE /\ snap' = [snap EXCEPT ![r].pc = "fetch",
                                                  ![r].token = IdleSnap.token,
                                                  ![r].trace = <<"auth", "rate", "authz">>]
                          /\ admitted' = [admitted EXCEPT ![fid] =
                                            Append(WithinHour(admitted[fid], now), now)]
  /\ UNCHANGED <<now, env, ui, chainVars, imgVars, api>>

\* lines 171-192: verifyJwt settles; authorization and rate check follow in the same turn
SnapVerify(r, verifierUp) ==
  /\ snap[r].pc = "verify"
  /\ LET fid == snap[r].fid
         token == snap[r].token
     IN  IF ~verifierUp
           THEN /\ snap' = [snap EXCEPT ![r] = Respond(r, 500, <<"auth">>)]
                /\ UNCHANGED <<mintAttempts, admitted>>
         ELSE IF token.kind = "invalid"
           THEN /\ snap' = [snap EXCEPT ![r] = Respond(r, 401, <<"auth">>)]
                /\ UNCHANGED <<mintAttempts, admitted>>
         ELSE IF token.sub # fid
           THEN /\ snap' = [snap EXCEPT ![r] = Respond(r, 403, <<"auth", "authz">>)]
                /\ UNCHANGED <<mintAttempts, admitted>>
         ELSE LET rl == checkRateLimit(fid)
              IN  /\ mintAttempts' = rl.ledger
                  /\ IF rl.ok
                       THEN /\ snap' = [snap EXCEPT ![r].pc = "fetch",
                                                    ![r].token = IdleSnap.token,
                                                    ![r].trace = <<"auth", "authz", "rate">>]
                            /\ admitted' = [admitted EXCEPT ![fid] =
                                              Append(WithinHour(admitted[fid], now), now)]
                       ELSE /\ snap' = [snap EXCEPT ![r] = Respond(r, 429, <<"auth", "authz", "rate">>)]
                            /\ UNCHANGED admitted
  /\ UNCHANGED <<now, env, ui, chainVars, imgVars, api>>

\* variant: a request whose data gathering fails gives its rate-limit slot back
SnapFetch_ReleasesSlot(r, outcome) ==
  /\ snap[r].pc = "fetch"
  /\ snap' = [snap EXCEPT ![r] =
        CASE outcome = "throws" -> Respond(r, 500, <<"fetch">>)
          [] outcome = "nouser" -> Respond(r, 404, <<"fetch">>)
          [] OTHER -> [snap[r] EXCEPT !.pc = "render", !.trace = snap[r].trace \o <<"fetch">>]]
  /\ mintAttempts' =
        IF outcome \in {"throws", "nouser"}
          THEN [mintAttempts EXCEPT ![snap[r].fid] = SubSeq(@, 1, Len(@) - 1)]
          ELSE mintAttempts
  /\ UNCHANGED <<now, env, ui, chainVars, admitted, imgVars, api>>

\* lines 194-198: fetchUserData settles
SnapFetch(r, outcome) ==
  /\ snap[r].pc = "fetch"
  /\ snap' = [snap EXCEPT ![r] =
        CASE outcome = "throws" -> Respond(r, 500, <<"fetch">>)
          [] outcome = "nouser" -> Respond(r, 404, <<"fetch">>)
          [] OTHER -> [snap[r] EXCEPT !.pc = "render", !.trace = snap[r].trace \o <<"fetch">>]]
  /\ UNCHANGED <<now, env, ui, chainVars, mintAttempts, admitted, imgVars, api>>

\* variant: a failed render is swallowed and the upload goes ahead
SnapRender_SwallowsError(r, outcome) ==
  /\ snap[r].pc = "render"
  /\ snap' = [snap EXCEPT ![r] =
        IF outcome = "throws" THEN [snap[r] EXCEPT !.pc = "uploadImage"]
        ELSE [snap[r] EXCEPT !.pc = "uploadImage", !.trace = snap[r].trace \o <<"render">>]]
  /\ UNCHANGED <<now, env, ui, chainVars, mintAttempts, admitted, imgVars, api>>

\* lines 200-211: generateProfileImage and the JPEG conversion settle
SnapRender(r, outcome) ==
  /\ snap[r].pc = "render"
  /\ snap' = [snap EXCEPT ![r] =
        IF outcome = "throws" THEN Respond(r, 500, <<"render">>)
        ELSE [snap[r] EXCEPT !.pc = "uploadImage", !.trace = snap[r].trace \o <<"render">>]]
  /\ UNCHANGED <<now, env, ui, chainVars, mintAttempts, admitted, imgVars, api>>

\* lines 100-126, 213-215: uploadToPinata
SnapUploadImage(r, outcome) ==
  /\ snap[r].pc = "uploadImage"
  /\ snap' = [snap EXCEPT ![r] =
        IF ~env.PINATA_JWT THEN Respond(r, 500, <<>>)
        ELSE IF outcome = "throws" THEN Respond(r, 500, <<"uploadImage">>)
        ELSE [snap[r] EXCEPT !.pc = "uploadMetadata", !.imageHash = TRUE,
                             !.trace = snap[r].trace \o <<"uploadImage">>]]
  /\ UNCHANGED <<now, env, ui, chainVars, mintAttempts, admitted, imgVars, api>>

\* variant: a failed metadata upload unpins the image
SnapUploadMetadata_RollsBack(r, outcome) ==
  /\ snap[r].pc = "uploadMetadata"
  /\ snap' = [snap EXCEPT ![r] =
        IF ~env.PINATA_JWT THEN Respond(r, 500, <<>>)
        ELSE IF outcome = "throws"
          THEN [Respond(r, 500, <<"uploadMetadata">>) EXCEPT !.imageHash = FALSE]
        ELSE [Respond(r, 200, <<"uploadMetadata">>) EXCEPT !.metadataHash = TRUE]]
  /\ UNCHANGED <<now, env, ui, chainVars, mintAttempts, admitted, imgVars, api>>

\* lines 128-151, 217-307: uploadMetadataToPinata and the success response
SnapUploadMetadata(r, outcome) ==
  /\ snap[r].pc = "uploadMetadata"
  /\ snap' = [snap EXCEPT ![r] =
        IF ~env.PINATA_JWT THEN Respond(r, 500, <<>>)
        ELSE IF outcome = "throws" THEN Respond(r, 500, <<"uploadMetadata">>)
        ELSE [Respond(r, 200, <<"uploadMetadata">>) EXCEPT !.metadataHash = TRUE]]
  /\ UNCHANGED <<now, env, ui, chainVars, mintAttempts, admitted, imgVars, api>>

\* the response has been delivered; the slot is free for the next invocation
SnapClose(r) ==
  /\ snap[r].pc = "done"
  /\ snap' = [snap EXCEPT ![r] = IdleSnap]
  /\ UNCHANGED <<now, env, ui, chainVars, mintAttempts, admitted, imgVars, api>>

\* wall-clock time passes
SnapTick(d) ==
  /\ now + d <= SnapMaxNow
  /\ now' = now + d
  /\ UNCHANGED <<env, ui, chainVars, snapVars, imgVars, api>>

Outcomes == {"ok", "throws"}

SnapIdle ==
  /\ mintAttempts = [f \in Fids |-> <<>>]
  /\ admitted = [f \in Fids |-> <<>>]
  /\ snap = [r \in SnapReqs |-> IdleSnap]

\* ------------------------------------------------------------------------
\* The WhoIsWho contract: packages/hardhat/contracts/WhoIsWho.sol
\* ------------------------------------------------------------------------
\* An externally owned account and a contract account; either may be the
\* owner. A contract account decides in its own code whether it takes a
\* token (onERC721Received, called by _safeMint) or a payment (receive, run
\* by owner().call); it is taken not to call back into WhoIsWho while doing so.
Accounts == {"alice", "vault"}
ContractAccounts == {"vault"}
MaxMints == 2
TokenIds == 1..(MaxMints + 1)
Wei == {0, 1}
MintFids == {0} \cup Fids

IpfsPrefix == <<"i", "p", "f", "s", ":", "/", "/">>
Uris == {<<>>, IpfsPrefix \o <<"Q">>}

\* lines 136-157: the URI without a leading "ipfs://", when something follows it
extractIpfsHash(uri) ==
  IF Len(uri) > 7 /\ SubSeq(uri, 1, 7) = IpfsPrefix
    THEN SubSeq(uri, 8, Len(uri))
    ELSE uri

\* lines 16-22 and 40-45: the storage after construction; a mapping holds the
\* zero value (None for an address) at every key never written
Constructor(initialOwner, initialMintPrice) ==
  [owner |-> initialOwner,
   mintPrice |-> initialMintPrice,
   nextTokenId |-> 1,
   ownerOf |-> [id \in TokenIds |-> None],
   tokenURI |-> [id \in TokenIds |-> <<>>],
   tokenToFid |-> [id \in TokenIds |-> 0],
   tokenMintTime |-> [id \in TokenIds |-> 0],
   userTokens |-> [a \in Accounts |-> <<>>],
   balance |-> 0]

\* a transaction: the call with the arguments of a mint, the answer the
\* account called back would give (accepts), whether the transaction
\* succeeded, the revert reason, the Minted event (tokenId, ipfsHash) and the
\* payment made (paid wei to payee)
NoTx == [fn |-> None, sender |-> None, value |-> 0, fid |-> 0, uri |-> <<>>,
         accepts |-> TRUE, ok |-> FALSE, reason |-> None, tokenId |-> 0,
         ipfsHash |-> <<>>, payee |-> None, paid |-> 0]

\* a revert undoes every effect of the transaction
Revert(call, reason) ==
  /\ tx' = [call EXCEPT !.reason = reason]
  /\ UNCHANGED <<wiw, mints>>

\* variant: ++_nextTokenId
PostIncrement_Pre(counter) == [value |-> counter + 1, counter |-> counter + 1]

\* line 67: _nextTokenId++
PostIncrement(counter) == [value |-> counter, counter |-> counter + 1]

\* variant: msg.value > mintPrice
SufficientPayment_Strict(value) == value > wiw.mintPrice

\* line 63: msg.value >= mintPrice
SufficientPayment(value) == value >= wiw.mintPrice

\* variant: no access control
onlyOwner_Anyone(sender) == TRUE

\* lines 51 and 115, modifier onlyOwner: the caller is owner()
onlyOwner(sender) == sender = wiw.owner

\* lines 62-83: mint; accepts is the answer of the caller's onERC721Received
Mint(sender, value, fid, uri, accepts) ==
  /\ wiw.nextTokenId <= MaxMints
  /\ LET call == [NoTx EXCEPT !.fn = "mint", !.sender = sender, !.value = value,
                              !.fid = fid, !.uri = uri, !.accepts = accepts]
         next == PostIncrement(wiw.nextTokenId)
         tokenId == next.value
         timestamp == now
     IN  IF ~SufficientPayment(value) THEN Revert(call, "Insufficient payment")
         ELSE IF ~(fid > 0) THEN Revert(call, "Invalid FID")
         ELSE IF ~(Len(uri) > 0) THEN Revert(call, "Empty token URI")
         ELSE IF sender \in ContractAccounts /\ ~accepts
           THEN Revert(call, "ERC721InvalidReceiver")
         ELSE /\ wiw' = [wiw EXCEPT !.nextTokenId = next.counter,
                                    !.ownerOf[tokenId] = sender,
                                    !.tokenURI[tokenId] = uri,
                                    !.tokenToFid[tokenId] = fid,
                                    !.tokenMintTime[tokenId] = timestamp,
                                    !.userTokens[sender] = Append(@, tokenId),
                                    !.balance = @ + value]
              /\ tx' = [call EXCEPT !.ok = TRUE, !.tokenId = tokenId,
                                    !.ipfsHash = extractIpfsHash(uri)]
              /\ mints' = mints + 1
  /\ UNCHANGED <<now, env, ui, snapVars, imgVars, api>>

\* lines 51-55: setMintPrice
SetMintPrice(sender, newPrice) ==
  /\ LET call == [NoTx EXCEPT !.fn = "setMintPrice", !.sender = sender]
     IN  IF ~onlyOwner(sender) THEN Revert(call, "OwnableUnauthorizedAccount")
         ELSE /\ wiw' = [wiw EXCEPT !.mintPrice = newPrice]
              /\ tx' = [call EXCEPT !.ok = TRUE]
              /\ UNCHANGED mints
  /\ UNCHANGED <<now, env, ui, snapVars, imgVars, api>>

\* variant: the balance is not checked before it is sent
Withdraw_NoBalanceCheck(sender, accepts) ==
  /\ LET call == [NoTx EXCEPT !.fn = "withdraw", !.sender = sender, !.accepts = accepts]
         balance == wiw.balance
         success == wiw.owner \notin ContractAccounts \/ accepts
     IN  IF ~onlyOwner(sender) THEN Revert(call, "OwnableUnauthorizedAccount")
         ELSE IF ~success THEN Revert(call, "Withdrawal failed")
         ELSE /\ wiw' = [wiw EXCEPT !.balance = @ - balance]
              /\ tx' = [call EXCEPT !.ok = TRUE, !.payee = wiw.owner, !.paid = balance]
              /\ UNCHANGED mints
  /\ UNCHANGED <<now, env, ui, snapVars, imgVars, api>>

\* lines 115-121: withdraw; accepts is the outcome of the owner's receive
\* function, an externally owned account always takes the payment
Withdraw(sender, accepts) ==
  /\ LET call == [NoTx EXCEPT !.fn = "withdraw", !.sender = sender, !.accepts = accepts]
         balance == wiw.balance
         success == wiw.owner \notin ContractAccounts \/ accepts
     IN  IF ~onlyOwner(sender) THEN Revert(call, "OwnableUnauthorizedAccount")
         ELSE IF ~(balance > 0) THEN Revert(call, "No balance to withdraw")
         ELSE IF ~success THEN Revert(call, "Withdrawal failed")
         ELSE /\ wiw' = [wiw EXCEPT !.balance = @ - balance]
              /\ tx' = [call EXCEPT !.ok = TRUE, !.payee = wiw.owner, !.paid = balance]
              /\ UNCHANGED mints
  /\ UNCHANGED <<now, env, ui, snapVars, imgVars, api>>

\* ERC721.transferFrom(sender, to, tokenId), inherited at line 14, sent by
\* the holder of the token
TransferFrom(sender, to, tokenId) ==
  /\ LET call == [NoTx EXCEPT !.fn = "transferFrom", !.sender = sender]
     IN  IF wiw.ownerOf[tokenId] = None THEN Revert(call, "ERC721NonexistentToken")
         ELSE IF wiw.ownerOf[tokenId] # sender THEN Revert(call, "ERC721InsufficientApproval")
         ELSE /\ wiw' = [wiw EXCEPT !.ownerOf[tokenId] = to]
              /\ tx' = [call EXCEPT !.ok = TRUE]
              /\ UNCHANGED mints
  /\ UNCHANGED <<now, env, ui, snapVars, imgVars, api>>

\* Ownable.transferOwnership(newOwner), inherited at line 14
TransferOwnership(sender, newOwner) ==
  /\ LET call == [NoTx EXCEPT !.fn = "transferOwnership", !.sender = sender]
     IN  IF ~onlyOwner(sender) THEN Revert(call, "OwnableUnauthorizedAccount")
         ELSE /\ wiw' = [wiw EXCEPT !.owner = newOwner]
              /\ tx' = [call EXCEPT !.ok = TRUE]
              /\ UNCHANGED mints
  /\ UNCHANGED <<now, env, ui, snapVars, imgVars, api>>

\* a later block: block.timestamp advances
ChainTick ==
  /\ now < MaxTicks - 1
  /\ now' = now + 1
  /\ UNCHANGED <<env, ui, snapVars, imgVars, api, chainVars>>

\* the contract as the handlers' specifications hold it
ChainIdle ==
  /\ wiw = Constructor("alice", 0)
  /\ tx = NoTx
  /\ mints = 0

\* ------------------------------------------------------------------------
\* OG image handler: app/profile/[fid]/opengraph-image (Image)
\* ------------------------------------------------------------------------
CACHE_DURATION == 10 * 60 * 1000
CACHE_MAX_ENTRIES == 500
EVICT_COUNT == 20

HalfCache == CACHE_DURATION \div 2
ImgTickSteps == {HalfCache - 1, HalfCache}
ImgMaxNow == MaxTicks * HalfCache

\* now: the time captured at line 273, kept for the request that generates
IdleImg == [pc |-> "idle", fid |-> 0, now |-> 0, promise |-> None, result |-> None]

\* Map.get / Map.has / Map.set / Map.delete on imageCache
CacheHas(cache, fid) == \E i \in DOMAIN cache : cache[i].fid = fid
CacheGet(cache, fid) == cache[CHOOSE i \in DOMAIN cache : cache[i].fid = fid]
CacheSet(cache, entry) ==
  IF CacheHas(cache, entry.fid)
    THEN [i \in DOMAIN cache |-> IF cache[i].fid = entry.fid THEN entry ELSE cache[i]]
    ELSE Append(cache, entry)
CacheDelete(cache, fids) == SelectSeq(cache, LAMBDA e : e.fid \notin fids)

\* Array.prototype.sort by (a, b) => a.timestamp - b.timestamp, which is stable:
\* the entry at index i goes to the place after every entry with a smaller
\* timestamp and every earlier entry with the same timestamp
SortByTimestamp(entries) ==
  LET place == [i \in DOMAIN entries |->
                  1 + Cardinality({j \in DOMAIN entries :
                                     \/ entries[j].timestamp < entries[i].timestamp
                                     \/ /\ entries[j].timestamp = entries[i].timestamp
                                        /\ j < i})]
  IN  [k \in DOMAIN entries |-> entries[CHOOSE i \in DOMAIN entries : place[i] = k]]

\* variant: the first EVICT_COUNT entries of the map go, unsorted
CleanUp_NoSort(cache) ==
  IF Len(cache) > CACHE_MAX_ENTRIES
    THEN CacheDelete(cache, {cache[i].fid : i \in 1..EVICT_COUNT})
    ELSE cache

\* lines 317-326: once the cache holds more than CACHE_MAX_ENTRIES entries,
\* delete the EVICT_COUNT entries with the smallest timestamps
CleanUp(cache) ==
  IF Len(cache) > CACHE_MAX_ENTRIES
    THEN LET entries == SortByTimestamp(cache)
         IN  CacheDelete(cache, {entries[i].fid : i \in 1..EVICT_COUNT})
    ELSE cache

\* line 277: the entry of fid is present and younger than CACHE_DURATION at time t
ValidEntry(cache, fid, t) ==
  CacheHas(cache, fid) /\ t - CacheGet(cache, fid).timestamp < CACHE_DURATION

\* the generation started by request r has not settled yet
Generating(r) == img[r].pc = "waiting" /\ img[r].promise = r

\* variant: every miss starts a generation, pending or not
ImgRequest_NoJoin(r, fid) ==
  /\ img[r].pc = "idle"
  /\ IF ValidEntry(imageCache, fid, now)
       THEN /\ img' = [img EXCEPT ![r] = [IdleImg EXCEPT !.pc = "done", !.fid = fid,
                                                         !.result = "hit"]]
            /\ UNCHANGED pendingGenerations
       ELSE /\ img' = [img EXCEPT ![r] = [IdleImg EXCEPT !.pc = "waiting", !.fid = fid,
                                                         !.now = now, !.promise = r]]
            /\ pendingGenerations' = [pendingGenerations EXCEPT ![fid] = r]
  /\ UNCHANGED <<now, env, ui, chainVars, snapVars, imageCache, api>>

\* lines 271-341 up to the first suspension: cache lookup, join or start
ImgRequest(r, fid) ==
  /\ img[r].pc = "idle"
  /\ IF ValidEntry(imageCache, fid, now)
       THEN /\ img' = [img EXCEPT ![r] = [IdleImg EXCEPT !.pc = "done", !.fid = fid,
                                                         !.result = "hit"]]
            /\ UNCHANGED pendingGenerations
     ELSE IF pendingGenerations[fid] # None
       THEN /\ img' = [img EXCEPT ![r] = [IdleImg EXCEPT !.pc = "waiting", !.fid = fid,
                                                         !.promise = pendingGenerations[fid]]]
            /\ UNCHANGED pendingGenerations
       ELSE /\ img' = [img EXCEPT ![r] = [IdleImg EXCEPT !.pc = "waiting", !.fid = fid,
                                                         !.now = now, !.promise = r]]
            /\ pendingGenerations' = [pendingGenerations EXCEPT ![fid] = r]
  /\ UNCHANGED <<now, env, ui, chainVars, snapVars, imageCache, api>>

\* every request awaiting the promise of s receives its outcome
Settle(s, outcome) ==
  [r \in ImgReqs |->
     IF img[r].pc = "waiting" /\ img[r].promise = s
       THEN [img[r] EXCEPT !.pc = "done", !.result = outcome, !.now = 0]
       ELSE img[r]]

\* variant: the pending entry is deleted on the success path only
ImgSettle_NoFinally(s, outcome) ==
  /\ Generating(s)
  /\ IF outcome = "throws"
       THEN UNCHANGED <<imageCache, pendingGenerations>>
       ELSE /\ imageCache' = CleanUp(CacheSet(imageCache,
                                [fid |-> img[s].fid, timestamp |-> img[s].now,
                                 body |-> outcome, insertedAt |-> now]))
            /\ pendingGenerations' = [pendingGenerations EXCEPT ![img[s].fid] = None]
  /\ img' = Settle(s, outcome)
  /\ UNCHANGED <<now, env, ui, chainVars, snapVars, api>>

\* lines 294-336: generateImage settles; store, clean up, clear the pending entry.
\* insertedAt is not a field of CacheEntry: it records the time of the
\* imageCache.set call of lines 302-306, for the properties to refer to
ImgSettle(s, outcome) ==
  /\ Generating(s)
  /\ IF outcome = "throws"
       THEN UNCHANGED imageCache
       ELSE imageCache' = CleanUp(CacheSet(imageCache,
                            [fid |-> img[s].fid, timestamp |-> img[s].now,
                             body |-> outcome, insertedAt |-> now]))
  /\ pendingGenerations' = [pendingGenerations EXCEPT ![img[s].fid] = None]
  /\ img' = Settle(s, outcome)
  /\ UNCHANGED <<now, env, ui, chainVars, snapVars, api>>

\* the response has been delivered; the slot is free for the next invocation
ImgClose(r) ==
  /\ img[r].pc = "done"
  /\ img' = [img EXCEPT ![r] = IdleImg]
  /\ UNCHANGED <<now, env, ui, chainVars, snapVars, imageCache, pendingGenerations, api>>

ImgTick(d) ==
  /\ now + d <= ImgMaxNow
  /\ now' = now + d
  /\ UNCHANGED <<env, ui, chainVars, snapVars, imgVars, api>>

\* generateImage: the rendered profile, the fallback thumbnail, or an exception
ImgOutcomes == {"profile", "thumbnail", "throws"}

ImgIdle ==
  /\ imageCache = <<>>
  /\ pendingGenerations = [f \in Fids |-> None]
  /\ img = [r \in ImgReqs |-> IdleImg]

InitImage ==
  /\ now = 0
  /\ env = [PINATA_JWT |-> TRUE, NEYNAR_API_KEY |-> TRUE]
  /\ SnapIdle
  /\ ImgIdle
  /\ api = IdleApi
  /\ ui = IdleUi
  /\ ChainIdle

NextImage ==
  \/ \E r \in ImgReqs, f \in Fids : ImgRequest(r, f)
  \/ \E s \in ImgReqs, o \in ImgOutcomes : ImgSettle(s, o)
  \/ \E r \in ImgReqs : ImgClose(r)
  \/ \E d \in ImgTickSteps : ImgTick(d)

SpecImage == InitImage /\ [][NextImage]_vars

\* ------------------------------------------------------------------------
\* The OG image handler with a full cache
\* ------------------------------------------------------------------------
\* imageCache after CACHE_MAX_ENTRIES generations for other fids, requested
\* two per millisecond from time 1 on and stored at once
FullCache ==
  [i \in 1..CACHE_MAX_ENTRIES |->
     [fid |-> 2 + i, timestamp |-> (i + 1) \div 2,
      body |-> "profile", insertedAt |-> (i + 1) \div 2]]

\* the cache is full at time CACHE_MAX_ENTRIES, and the generation for fid 1
\* that request i1 started at time 0, before any entry was requested, is
\* still running
InitEvict ==
  /\ now = CACHE_MAX_ENTRIES
  /\ env = [PINATA_JWT |-> TRUE, NEYNAR_API_KEY |-> TRUE]
  /\ SnapIdle
  /\ api = IdleApi
  /\ ui = IdleUi
  /\ ChainIdle
  /\ imageCache = FullCache
  /\ img = [r \in ImgReqs |->
              IF r = "i1" THEN [IdleImg EXCEPT !.pc = "waiting", !.fid = 1, !.promise = "i1"]
                          ELSE IdleImg]
  /\ pendingGenerations = [f \in Fids |-> IF f = 1 THEN "i1" ELSE None]

SpecEvict == InitEvict /\ [][NextImage]_vars

\* ------------------------------------------------------------------------
\* Properties of the OG image handler
\* ------------------------------------------------------------------------
\* C3: at most one generation per fid is in flight; a request that misses the
\* cache while a generation for its fid is in flight starts none and is
\* settled together with that generation, with the same outcome.
Theorem_C3 ==
  /\ [](\A f \in Fids : Cardinality({r \in ImgReqs : Generating(r) /\ img[r].fid = f}) <= 1)
  /\ [][\A r \in ImgReqs, s \in ImgReqs :
          /\ (/\ img[r].pc = "idle" /\ img'[r].pc # "idle"
               /\ Generating(s) /\ img'[r].fid = img[s].fid
               /\ ~ValidEntry(imageCache, img[s].fid, now))
                => (img'[r].pc = "waiting" /\ img'[r].promise = s /\ ~Generating(r)')
          /\ (Generating(s) /\ ~Generating(s)' /\ img[r].pc = "waiting" /\ img[r].promise = s)
                => (img'[r].pc = "done" /\ img'[r].result = img'[s].result)]_vars

\* a request waiting on the generation another request started
Witness_C3 ==
  \E r \in ImgReqs, s \in ImgReqs :
    r # s /\ Generating(s) /\ img[r].pc = "waiting" /\ img[r].promise = s

\* C19: a fid is in pendingGenerations exactly while its generation is
\* running; the generation's settling, with a result or with an exception,
\* removes it; and a request that misses the cache while no generation for
\* its fid is running, a failed one having settled or not, starts its own.
Theorem_C19 ==
  /\ [](\A f \in Fids :
          /\ pendingGenerations[f] # None =>
                Generating(pendingGenerations[f]) /\ img[pendingGenerations[f]].fid = f
          /\ \A r \in ImgReqs :
                (Generating(r) /\ img[r].fid = f) => pendingGenerations[f] = r)
  /\ [][\A s \in ImgReqs :
          /\ (Generating(s) /\ ~Generating(s)') => pendingGenerations'[img[s].fid] = None
          /\ (/\ img[s].pc = "idle" /\ img'[s].pc # "idle"
               /\ ~ValidEntry(imageCache, img'[s].fid, now)
               /\ ~\E g \in ImgReqs : Generating(g) /\ img[g].fid = img'[s].fid)
                => Generating(s)']_vars

\* a generation is running for a fid whose previous generation threw
Witness_C19 ==
  \E r \in ImgReqs, s \in ImgReqs :
    /\ img[r].pc = "done" /\ img[r].result = "throws"
    /\ Generating(s) /\ img[s].fid = img[r].fid
    /\ pendingGenerations[img[s].fid] = s

\* C20: a request finding an entry of its fid in imageCache is served from
\* it exactly when it arrives less than CACHE_DURATION after the entry was
\* inserted.
Claim_C20 ==
  [][\A r \in ImgReqs :
       (/\ img[r].pc = "idle" /\ img'[r].pc # "idle"
        /\ CacheHas(imageCache, img'[r].fid))
         => (img'[r].result = "hit"
               <=> now - CacheGet(imageCache, img'[r].fid).insertedAt < CACHE_DURATION)]_vars

\* the generation of s settles with a response, which is stored
Stores(s) == Generating(s) /\ ~Generating(s)' /\ img'[s].result # "throws"

\* the entry Stores(s) writes
Stored(s) == [fid |-> img[s].fid, timestamp |-> img[s].now,
              body |-> img'[s].result, insertedAt |-> now]

\* C21: imageCache never holds more than 500 entries once a generation has
\* completed; an insertion that makes it 501 removes 20 entries in the same
\* step, none of them newer by timestamp than an entry that stays; any other
\* insertion removes nothing.
Theorem_C21 ==
  /\ [](Len(imageCache) <= CACHE_MAX_ENTRIES)
  /\ [][\A s \in ImgReqs : Stores(s) =>
          LET before == {e \in Range(imageCache) : e.fid # img[s].fid} \cup {Stored(s)}
              after == Range(imageCache')
              removed == before \ after
          IN  /\ after \subseteq before
              /\ Cardinality(after) = Len(imageCache')
              /\ IF Cardinality(before) > CACHE_MAX_ENTRIES
                   THEN /\ Cardinality(removed) = EVICT_COUNT
                        /\ \A x \in removed, y \in after : x.timestamp <= y.timestamp
                   ELSE removed = {}]_vars

\* an eviction has taken place
Witness_C21 == Len(imageCache) = CACHE_MAX_ENTRIES + 1 - EVICT_COUNT

\* C26: the entry a generation writes is in imageCache when the step that
\* wrote it, eviction included, ends.
Claim_C26 ==
  [][\A s \in ImgReqs : Stores(s) => CacheHas(imageCache', img[s].fid)]_vars

\* ------------------------------------------------------------------------
\* Specification of the snapshot endpoint
\* ------------------------------------------------------------------------

InitSnapshot ==
  /\ now = 0
  /\ env \in [PINATA_JWT : BOOLEAN, NEYNAR_API_KEY : {TRUE}]
  /\ SnapIdle
  /\ ImgIdle
  /\ api = IdleApi
  /\ ui = IdleUi
  /\ ChainIdle

NextSnapshot ==
  \/ \E r \in SnapReqs, body \in Bodies : SnapReceive(r, body)
  \/ \E r \in SnapReqs, up \in BOOLEAN : SnapVerify(r, up)
  \/ \E r \in SnapReqs, o \in Outcomes \cup {"nouser"} : SnapFetch(r, o)
  \/ \E r \in SnapReqs, o \in Outcomes : SnapRender(r, o)
  \/ \E r \in SnapReqs, o \in Outcomes : SnapUploadImage(r, o)
  \/ \E r \in SnapReqs, o \in Outcomes : SnapUploadMetadata(r, o)
  \/ \E r \in SnapReqs : SnapClose(r)
  \/ \E d \in SnapTickSteps : SnapTick(d)

SpecSnapshot == InitSnapshot /\ [][NextSnapshot]_vars

\* ------------------------------------------------------------------------
\* Specification of the GET route handlers
\* ------------------------------------------------------------------------
InitApi ==
  /\ now = 0
  /\ env \in [PINATA_JWT : {TRUE}, NEYNAR_API_KEY : BOOLEAN]
  /\ SnapIdle
  /\ ImgIdle
  /\ api = IdleApi
  /\ ui = IdleUi
  /\ ChainIdle

NextApi ==
  \/ \E fid \in FidParams, viewer \in BOOLEAN : UserRequest(fid, viewer)
  \/ \E n \in NeynarResponses, f \in FarcasterResponses : UserSettle(n, f)
  \/ \E q \in QueryParams, limit \in LimitParams : SearchRequest(q, limit)
  \/ \E sr \in SearchResponses : SearchArrive(1, sr)
  \/ \E fr \in LookupResponses : SearchArrive(2, fr)
  \/ SearchSettle(api.up[1], api.up[2])
  \/ \E route \in {"clanker", "streme"}, fid \in FidParams : TokensRequest(route, fid)
  \/ \E response \in ClankerResponses : ClankerSettle(response)
  \/ \E response \in StremeResponses : StremeSettle(response)
  \/ ApiClose

SpecApi == InitApi /\ [][NextApi]_vars

\* ------------------------------------------------------------------------
\* Properties of the snapshot endpoint
\* ------------------------------------------------------------------------
\* the invocation r runs the rate check in this step
RateChecked(r) == snap[r].pc = "verify" /\ "rate" \in Range(snap'[r].trace)

\* number of requests of fid admitted during the hour that ends now
AdmittedInLastHour(fid) == Len(WithinHour(admitted[fid], now))

\* C1: per fid at most 5 admitted requests lie in one trailing 60-minute
\* window; a request checked while 5 admitted ones are less than an hour old
\* is rejected with 429, and a request checked when fewer than 5 are (the
\* first admitted one being 60 minutes old or older) is admitted.
Theorem_C1 ==
  /\ [](\A f \in Fids : AdmittedInLastHour(f) <= 5)
  /\ [][\A r \in SnapReqs : RateChecked(r) =>
          LET f == snap[r].fid
          IN  IF AdmittedInLastHour(f) >= 5
                THEN snap'[r].pc = "done" /\ snap'[r].status = 429
                ELSE snap'[r].pc = "fetch" /\ snap'[r].status = 0]_vars

\* five admitted requests in the ledger, the newest admitted now, one hour or
\* more after the start: the oldest slot has expired and been taken again
Witness_C1 ==
  \E r \in SnapReqs :
    /\ snap[r].pc = "fetch"
    /\ now >= OneHourMs
    /\ Len(admitted[snap[r].fid]) = 5
    /\ admitted[snap[r].fid][5] = now
    /\ admitted[snap[r].fid][1] < now

\* C2: a request rejected by the rate check leaves mintAttempts unchanged.
Theorem_C2 ==
  [][\A r \in SnapReqs :
       (RateChecked(r) /\ snap'[r].status = 429) => mintAttempts' = mintAttempts]_vars

Witness_C2 ==
  \E r \in SnapReqs :
    /\ snap[r].status = 429
    /\ Len(WithinHour(mintAttempts[snap[r].fid], now)) = 5

\* C4: a request answered 401 or 403 ran no rate check, data fetch, render
\* or upload, and the step that answers it leaves mintAttempts unchanged.
Theorem_C4 ==
  /\ [](\A r \in SnapReqs : snap[r].status \in {401, 403} =>
          Range(snap[r].trace) \cap
            {"rate", "fetch", "render", "uploadImage", "uploadMetadata"} = {})
  /\ [][\A r \in SnapReqs :
          (snap[r].pc = "verify" /\ snap'[r].status \in {401, 403})
             => mintAttempts' = mintAttempts]_vars

\* a 403 answer for a fid whose ledger still has room
Witness_C4 ==
  \E r \in SnapReqs :
    /\ snap[r].status = 403
    /\ Len(mintAttempts[snap[r].fid]) < 5

\* the order of the steps in POST, lines 166-295
StepOrder == <<"auth", "authz", "rate", "fetch", "render", "uploadImage", "uploadMetadata">>

IsPrefix(s, t) == Len(s) <= Len(t) /\ s = SubSeq(t, 1, Len(s))

\* C18: the steps a snapshot request has run are always an initial part of
\* authenticate, authorize, rate-check, gather data, render, upload image,
\* upload metadata; a 200 is answered only after all of them, the image
\* pinned before the metadata; a request has no status before its single
\* response, and once it has responded it runs no further step.
Theorem_C18 ==
  /\ [](\A r \in SnapReqs :
          /\ IsPrefix(snap[r].trace, StepOrder)
          /\ snap[r].metadataHash => snap[r].imageHash
          /\ snap[r].status = 200 =>
                snap[r].trace = StepOrder /\ snap[r].imageHash /\ snap[r].metadataHash
          /\ snap[r].pc = "done" <=> snap[r].status # 0
          /\ (snap[r].pc = "done" /\ snap[r].status # 200) => ~snap[r].metadataHash)
  /\ [][\A r \in SnapReqs :
          /\ snap[r].pc = "done" => (snap'[r] = snap[r] \/ snap'[r] = IdleSnap)
          /\ (snap[r].pc \notin {"idle", "done"} /\ snap'[r].pc # "done")
                => Len(snap'[r].trace) >= Len(snap[r].trace)]_vars

\* a request that has pinned image and metadata and answered 200
Witness_C18 ==
  \E r \in SnapReqs :
    snap[r].pc = "done" /\ snap[r].status = 200 /\ snap[r].trace = StepOrder

\* C24: a request whose metadata upload fails after its image was pinned
\* answers 500 once, keeps the image pinned and returns no metadata
\* identifier.
Theorem_C24 ==
  /\ [](\A r \in SnapReqs :
          (snap[r].pc = "done" /\ snap[r].status # 200 /\ snap[r].trace = StepOrder)
            => (snap[r].status = 500 /\ snap[r].imageHash /\ ~snap[r].metadataHash))
  /\ [][\A r \in SnapReqs :
          /\ (snap[r].pc = "uploadMetadata" /\ snap'[r].pc = "done" /\ snap'[r].status # 200)
               => (snap'[r].status = 500 /\ snap'[r].imageHash /\ ~snap'[r].metadataHash)
          /\ (snap[r].pc = "done" /\ snap[r].imageHash)
               => (snap'[r] = snap[r] \/ snap'[r] = IdleSnap)]_vars

\* the metadata upload has failed with the image pinned
Witness_C24 ==
  \E r \in SnapReqs :
    /\ snap[r].pc = "done" /\ snap[r].status = 500 /\ snap[r].trace = StepOrder
    /\ snap[r].imageHash /\ ~snap[r].metadataHash

\* the steps of a request after its rate check
AfterRateCheck == {"fetch", "render", "uploadImage", "uploadMetadata", "done"}

\* C25: no step after the rate check touches mintAttempts, whether it
\* fails or not; every request admitted within the last hour is still in the
\* ledger; and a request that reaches the rate check with five attempts of
\* the last hour in the ledger is answered 429.
Theorem_C25 ==
  /\ [](\A f \in Fids : Range(WithinHour(admitted[f], now)) \subseteq Range(mintAttempts[f]))
  /\ [][\A r \in SnapReqs :
          /\ snap[r].pc \in AfterRateCheck => mintAttempts' = mintAttempts
          /\ (RateChecked(r) /\ Len(WithinHour(mintAttempts[snap[r].fid], now)) >= 5)
               => (snap'[r].pc = "done" /\ snap'[r].status = 429)]_vars

\* without PINATA_JWT every admitted request fails; the sixth is answered 429
Witness_C25 ==
  \E r \in SnapReqs :
    /\ ~env.PINATA_JWT
    /\ snap[r].pc = "done" /\ snap[r].status = 429
    /\ Len(WithinHour(mintAttempts[snap[r].fid], now)) = 5

\* ------------------------------------------------------------------------
\* Properties of the GET route handlers
\* ------------------------------------------------------------------------
\* the parameter is present and is the decimal numeral of a positive integer
IsPositiveInteger(param) ==
  param.present /\ param.text # <<>> /\ AllDigits(param.text) /\ DigitsValue(param.text) > 0

\* the value a purely numeric search query denotes
QueryValue == DigitsValue(Trim(api.q.text))

Claim_C6 ==
  (/\ api.pc = "done" /\ api.route = "user"
   /\ api.up[1].kind = "ok" /\ Len(api.up[1].fids) > 0
   /\ api.up[2].kind \in {"status", "reject"})
    => /\ api.status = 200
       /\ api.user.fid = api.up[1].fids[1]
       /\ ~api.user.farcaster

\* C7: for a positive-integer fid, /api/user answers a documented error
\* status or a record whose fid is the requested one, whatever the primary
\* provider responds.
Claim_C7 ==
  (api.pc = "done" /\ api.route = "user" /\ IsPositiveInteger(api.fid))
    => \/ api.status \in {400, 404, 500} \cup ErrorStatuses
       \/ api.status = 200 /\ api.user.fid = DigitsValue(api.fid.text)

\* C8: /api/user answers 400, without any upstream request, to every fid
\* parameter that is missing or is not a positive integer.
Claim_C8 ==
  (api.pc # "idle" /\ api.route = "user" /\ ~IsPositiveInteger(api.fid))
    => api.pc = "done" /\ api.status = 400 /\ api.calls = {}

\* C10: for a fid whose account has no verified address, both token
\* endpoints answer { tokens: [], total: 0 } without any registry query.
Claim_C10 ==
  (/\ api.pc # "idle" /\ api.route \in {"clanker", "streme"}
   /\ IsPositiveInteger(api.fid)
   /\ DigitsValue(api.fid.text) \in UserFids
   /\ VerifiedAddresses[DigitsValue(api.fid.text)] = {})
    => /\ api.calls = {}
       /\ api.pc = "done" /\ api.status = 200 /\ api.tokens = <<>> /\ api.total = 0

\* C11: in the token list of a 200 answer of a token endpoint every
\* contract address appears exactly once.
Claim_C11 ==
  (api.pc = "done" /\ api.route \in {"clanker", "streme"} /\ api.status = 200)
    => \A i, j \in 1..Len(api.tokens) :
         api.tokens[i].contract_address = api.tokens[j].contract_address => i = j

\* C12: the token list of a 200 answer of a token endpoint is in
\* non-increasing order of market cap, whatever order the registry
\* returned the tokens in.
Claim_C12 ==
  (api.pc = "done" /\ api.route \in {"clanker", "streme"} /\ api.status = 200)
    => \A i \in 1..(Len(api.tokens) - 1) :
         api.tokens[i].marketCap >= api.tokens[i + 1].marketCap

\* the steps of a snapshot request that come after reading the configuration
WorkSteps == {"rate", "fetch", "render", "uploadImage", "uploadMetadata"}

\* C13: without its secret an endpoint fails before any other work:
\* /api/user without NEYNAR_API_KEY issues no upstream call, and
\* /api/generate-snapshot without PINATA_JWT records no mint attempt,
\* fetches nothing, renders nothing and never contacts the pinning service.
Claim_C13 ==
  /\ (~env.NEYNAR_API_KEY /\ api.route = "user") => api.calls = {}
  /\ ~env.PINATA_JWT =>
       /\ \A r \in SnapReqs : Range(snap[r].trace) \cap WorkSteps = {}
       /\ \A fid \in Fids : mintAttempts[fid] = <<>>

\* the calls a search request has issued
SearchCalls == IF IsNumeric(Trim(api.q.text)) THEN {1, 2} ELSE {1}

\* the direct hit, when the lookup returned one
DirectHit == api.up[2].kind = "ok" /\ Len(api.up[2].fids) > 0

\* the fids of the text results, without the fid of the direct hit
TextFids ==
  LET found == IF api.up[1].kind = "ok" THEN api.up[1].fids ELSE <<>>
  IN  IF DirectHit THEN SelectSeq(found, LAMBDA f : f # api.up[2].fids[1]) ELSE found

\* C22: a 200 answer of /api/search is put together only when every call
\* issued has completed, and it is determined by the two responses alone:
\* the direct hit first, then the text results in their own order, whichever
\* call completed first.
Theorem_C22 ==
  (api.pc = "done" /\ api.route = "search" /\ api.status = 200)
    => /\ Range(api.order) = SearchCalls
       /\ LET lead == IF DirectHit THEN 1 ELSE 0
          IN  /\ Len(api.users) = lead + Len(TextFids)
              /\ DirectHit => (api.users[1].fid = api.up[2].fids[1]
                               /\ api.users[1].from = "lookup")
              /\ \A i \in 1..Len(TextFids) :
                   api.users[lead + i].fid = TextFids[i] /\ api.users[lead + i].from = "search"

\* the lookup completed before the text search, and both found users
Witness_C22 ==
  /\ api.pc = "done" /\ api.route = "search" /\ api.status = 200
  /\ api.order = <<2, 1>>
  /\ DirectHit /\ Len(TextFids) > 0
  /\ api.users[1].from = "lookup"

\* C23: a failed text search (unreachable or error status) still gives a
\* 200 answer, with the direct hit at most; a failed lookup gives a 200
\* answer with the text results.
Claim_C23 ==
  (api.pc = "done" /\ api.route = "search")
    => /\ api.up[1].kind \in {"reject", "status"} =>
            (api.status = 200 /\ Len(api.users) <= 1)
       /\ (api.up[2].kind \in {"reject", "status"} /\ api.up[1].kind = "ok") =>
            (api.status = 200 /\ Len(api.users) = Len(api.up[1].fids))

\* C28: the effective limit of a search request lies between 1 and 50, and
\* a 200 answer lists no more users than the effective limit.
Claim_C28 ==
  (api.route = "search" /\ (api.pc = "await" \/ (api.pc = "done" /\ api.status = 200)))
    => /\ api.limitNum >= 1 /\ api.limitNum <= 50
       /\ Len(api.users) <= api.limitNum

\* ------------------------------------------------------------------------
\* Specification of the WhoIsWho contract
\* ------------------------------------------------------------------------
InitContract ==
  /\ now = 0
  /\ env = [PINATA_JWT |-> TRUE, NEYNAR_API_KEY |-> TRUE]
  /\ SnapIdle
  /\ ImgIdle
  /\ api = IdleApi
  /\ ui = IdleUi
  /\ \E initialOwner \in Accounts, initialMintPrice \in Wei :
       wiw = Constructor(initialOwner, initialMintPrice)
  /\ tx = NoTx
  /\ mints = 0

Answers(account) == IF account \in ContractAccounts THEN BOOLEAN ELSE {TRUE}

NextContract ==
  \/ \E sender \in Accounts, value \in Wei, fid \in MintFids, uri \in Uris :
       \E accepts \in Answers(sender) : Mint(sender, value, fid, uri, accepts)
  \/ \E sender \in Accounts, newPrice \in Wei : SetMintPrice(sender, newPrice)
  \/ \E sender \in Accounts : \E accepts \in Answers(wiw.owner) : Withdraw(sender, accepts)
  \/ \E sender \in Accounts, to \in Accounts, tokenId \in TokenIds :
       TransferFrom(sender, to, tokenId)
  \/ \E sender \in Accounts, newOwner \in Accounts : TransferOwnership(sender, newOwner)
  \/ ChainTick

SpecContract == InitContract /\ [][NextContract]_vars

\* ------------------------------------------------------------------------
\* Properties of the WhoIsWho contract
\* ------------------------------------------------------------------------
\* the step is a transaction calling fn (block time stands still within it)
Sends(fn) == tx'.fn = fn /\ now' = now

\* the arguments of the mint pass the three require statements
ValidMint == tx'.value >= wiw.mintPrice /\ tx'.fid > 0 /\ tx'.uri # <<>>

\* the mint has created token id for its sender with the data it was given
Recorded(id) ==
  /\ tx'.ok /\ tx'.tokenId = id
  /\ wiw.ownerOf[id] = None /\ wiw'.ownerOf[id] = tx'.sender
  /\ wiw'.tokenToFid[id] = tx'.fid
  /\ wiw'.tokenURI[id] = tx'.uri
  /\ wiw'.tokenMintTime[id] = now

\* C14: getCurrentTokenId() is the number of successful mints plus one, the
\* tokens in existence are those numbered 1 to that number, the k-th
\* successful mint creates token k for its caller, and a reverted mint
\* leaves the counter alone.
Theorem_C14 ==
  /\ [](/\ wiw.nextTokenId = mints + 1
        /\ \A id \in TokenIds : wiw.ownerOf[id] # None <=> id <= mints)
  /\ [][/\ (Sends("mint") /\ tx'.ok) =>
             /\ mints' = mints + 1
             /\ tx'.tokenId = mints'
             /\ wiw.ownerOf[mints'] = None /\ wiw'.ownerOf[mints'] = tx'.sender
        /\ (Sends("mint") /\ ~tx'.ok) =>
             (mints' = mints /\ wiw'.nextTokenId = wiw.nextTokenId)]_vars

\* the second mint has created token 2 for its caller
Witness_C14 ==
  /\ tx.fn = "mint" /\ tx.ok /\ tx.tokenId = 2
  /\ mints = 2 /\ wiw.nextTokenId = 3 /\ wiw.ownerOf[2] = tx.sender

\* C15 as stated: a mint reverts, changing nothing, when the payment is
\* below mintPrice, the fid is 0 or the URI is empty, and otherwise succeeds
\* and records caller, fid, URI and block timestamp for the new token.
Claim_C15 ==
  [][Sends("mint") =>
       IF ValidMint THEN Recorded(wiw.nextTokenId)
                    ELSE ~tx'.ok /\ wiw' = wiw]_vars

\* C15: a mint reverts, changing nothing, when the payment is below
\* mintPrice, the fid is 0, the URI is empty, or the caller is a contract
\* whose onERC721Received does not accept the token; otherwise it succeeds
\* and records caller, fid, URI and block timestamp for the new token.
Theorem_C15 ==
  [][Sends("mint") =>
       IF ValidMint /\ (tx'.sender \in ContractAccounts => tx'.accepts)
         THEN Recorded(wiw.nextTokenId)
         ELSE ~tx'.ok /\ wiw' = wiw]_vars

\* a contract account has minted with an overpayment
Witness_C15 ==
  /\ tx.fn = "mint" /\ tx.ok /\ tx.sender \in ContractAccounts
  /\ tx.value > wiw.mintPrice
  /\ wiw.ownerOf[tx.tokenId] = tx.sender /\ wiw.tokenToFid[tx.tokenId] = tx.fid

\* C16: setMintPrice and withdraw sent by an account other than the owner
\* revert; mintPrice changes only in a successful setMintPrice of the owner
\* and the balance decreases only in a successful withdraw of the owner.
Theorem_C16 ==
  [][/\ wiw'.mintPrice # wiw.mintPrice =>
          (tx'.fn = "setMintPrice" /\ tx'.ok /\ tx'.sender = wiw.owner)
     /\ wiw'.balance < wiw.balance =>
          (tx'.fn = "withdraw" /\ tx'.ok /\ tx'.sender = wiw.owner)
     /\ ((Sends("setMintPrice") \/ Sends("withdraw")) /\ tx'.sender # wiw.owner) =>
          (~tx'.ok /\ tx'.reason = "OwnableUnauthorizedAccount" /\ wiw' = wiw)]_vars

\* an account other than the owner has tried to withdraw existing funds
Witness_C16 ==
  /\ tx.fn = "withdraw" /\ ~tx.ok /\ tx.sender # wiw.owner
  /\ wiw.balance > 0

\* the withdraw has paid the whole balance to the owner
PaidOut ==
  /\ tx'.ok /\ tx'.payee = wiw.owner /\ tx'.paid = wiw.balance
  /\ wiw'.balance = 0

\* C17 as stated: a withdraw of the owner pays the whole positive balance to
\* the owner and leaves 0; with balance 0 it reverts with "No balance to
\* withdraw" and changes nothing.
Claim_C17 ==
  [][(Sends("withdraw") /\ tx'.sender = wiw.owner) =>
       IF wiw.balance > 0
         THEN PaidOut
         ELSE ~tx'.ok /\ tx'.reason = "No balance to withdraw" /\ wiw' = wiw]_vars

\* C17: a withdraw of the owner with a positive balance pays the whole
\* balance to the owner and leaves 0 when the owner's account takes the
\* payment, and reverts with "Withdrawal failed", changing nothing, when it
\* does not; with balance 0 it reverts with "No balance to withdraw" and
\* changes nothing.
Theorem_C17 ==
  [][(Sends("withdraw") /\ tx'.sender = wiw.owner) =>
       IF wiw.balance = 0
         THEN ~tx'.ok /\ tx'.reason = "No balance to withdraw" /\ wiw' = wiw
       ELSE IF wiw.owner \in ContractAccounts /\ ~tx'.accepts
         THEN ~tx'.ok /\ tx'.reason = "Withdrawal failed" /\ wiw' = wiw
       ELSE PaidOut /\ wiw' = [wiw EXCEPT !.balance = 0]]_vars

\* the owner has withdrawn the payments of two mints
Witness_C17 ==
  /\ tx.fn = "withdraw" /\ tx.ok /\ tx.paid = 2 /\ tx.payee = wiw.owner
  /\ wiw.balance = 0

\* C27: for every account u, the ids in getUserTokens(u) are the tokens u
\* owns, whatever mints and transfers have taken place.
Claim_C27 ==
  \A u \in Accounts :
    Range(wiw.userTokens[u]) = {id \in TokenIds : wiw.ownerOf[id] = u}

\* ------------------------------------------------------------------------
\* Specification of the FarcasterUserSearch component
\* ------------------------------------------------------------------------
InitSearchBox ==
  /\ now = 0
  /\ env = [PINATA_JWT |-> TRUE, NEYNAR_API_KEY |-> TRUE]
  /\ SnapIdle
  /\ ImgIdle
  /\ api = IdleApi
  /\ ui = IdleUi
  /\ ChainIdle

NextSearchBox ==
  \/ UiClear
  \/ UiSelectUser
  \/ \E text \in Queries : UiType(text)
  \/ UiClickOutside
  \/ UiTimeout
  \/ \E i \in 1..MaxInFlight, outcome \in SearchOutcomes : UiResponse(i, outcome)

SpecSearchBox == InitSearchBox /\ [][NextSearchBox]_vars

\* ------------------------------------------------------------------------
\* Properties of the FarcasterUserSearch component
\* ------------------------------------------------------------------------
\* the request i settles in this step
Answered(i) ==
  /\ i \in DOMAIN ui.fetches
  /\ ui'.fetches = RemoveAt(ui.fetches, i)
  /\ ui'.query = ui.query /\ ui'.timer = ui.timer

\* C29: the response to a request for a text other than the one now in the
\* box, trimmed, neither replaces the results nor opens the dropdown.
Claim_C29 ==
  [][\A i \in 1..MaxInFlight :
       Answered(i) /\ ui.fetches[i] # Trim(ui.query) =>
         ui'.results = ui.results /\ ui'.isOpen = ui.isOpen]_vars

\* C30: isLoading is true only while the query is not empty and the timer or
\* a request for the current query is outstanding.
Claim_C30 ==
  ui.isLoading =>
    /\ Trim(ui.query) # <<>>
    /\ \/ ui.timer # None
       \/ \E i \in DOMAIN ui.fetches : ui.fetches[i] = Trim(ui.query)

====
